---------------------------- MODULE Spec2Model ----------------------------
(***************************************************************************)
(* A model of PDFStructureExtractor (src/src/pdf_processor.py) and of the  *)
(* batch driver main().                                                    *)
(*                                                                         *)
(* Representation.                                                         *)
(*  - A text is the sequence of its whitespace-separated words; the Python *)
(*    string is the words joined by one blank.  Every text the code builds *)
(*    is stripped and assembled from stripped span texts with " ", so      *)
(*    equality of strings is equality of word sequences.                   *)
(*  - A word is a string of the vocabulary Words.  Chars(w) gives the      *)
(*    class of each of its characters ("U" upper-case letter, "l" lower-   *)
(*    case letter, "d" digit, "." full stop, "-" hyphen, ")" bracket), so  *)
(*    the regular expressions and str methods of the code are computed on  *)
(*    characters.                                                          *)
(*  - A font size is an integer number of twelfths of a point (Pt(13) is   *)
(*    13pt), so the average size of a group of up to four lines of whole-  *)
(*    or half-point sizes is exact.                                        *)
(***************************************************************************)
EXTENDS Integers, Sequences, FiniteSets, TLC

VARIABLES
    folder,           \* main: os.listdir(pdf_folder), the files in listing order
    idx,              \* main: number of files the for loop has finished
    outputs,          \* main: the results written, one per processed PDF
    pc,               \* position inside extract_structure ("main": not inside)
    doc,              \* extract_structure: the opened document
    title,            \* self.title
    title_font_size,  \* self.title_font_size
    title_spans,      \* self.title_spans
    font_size_stats,  \* self.font_size_stats
    page_num,         \* _extract_headings: index of the page being scanned (0-based)
    line_num,         \* _extract_headings: lines of that page already scanned
    current_heading,  \* _extract_headings: the accumulator (None or a record)
    headings,         \* _extract_headings: the list built by the scan
    result,           \* the value extract_structure returned last
    levelled,         \* history: the (text, size, level) of every line levelled
    merged,           \* history: the (page, y) of every line put in a heading
    probe             \* history: the last call of a predicate made on its own

vars == <<folder, idx, outputs, pc, doc, title, title_font_size, title_spans,
          font_size_stats, page_num, line_num, current_heading, headings,
          result, levelled, merged, probe>>

---------------------------------------------------------------------------
(* Bounds of the model.                                                    *)

MaxPages == 2
MaxLines == 3
MaxFiles == 2
MaxLevelled == 2

---------------------------------------------------------------------------
(* Characters, words and texts.                                            *)

Pt(n) == n * 12

None == "None"

Rep(c, n) == [i \in 1..n |-> c]

Words == {"Syllabus", "Overview", "Chapter", "Scope", "Note", "Aims", "1",
          "1.1", "-", "Page", "of", "3", "10", "Foundation", "Level",
          "Extensions", "1.", "Introduction", "Background", "CHAPTER",
          "SCOPE", "In", "section.", "The", "End", "1)", "Hi", "Unknown",
          "Document", "1.1.1"}

\* The character classes of each word.
CharsOf ==
    [w \in Words |->
        CASE w = "Syllabus" -> <<"U">> \o Rep("l", 7)
          [] w = "Overview" -> <<"U">> \o Rep("l", 7)
          [] w = "Chapter"  -> <<"U">> \o Rep("l", 6)
          [] w = "Scope"    -> <<"U">> \o Rep("l", 4)
          [] w = "Note"     -> <<"U">> \o Rep("l", 3)
          [] w = "Aims"     -> <<"U">> \o Rep("l", 3)
          [] w = "1"        -> <<"d">>
          [] w = "1.1"      -> <<"d", ".", "d">>
          [] w = "-"        -> <<"-">>
          [] w = "Page"     -> <<"U">> \o Rep("l", 3)
          [] w = "of"       -> Rep("l", 2)
          [] w = "3"        -> <<"d">>
          [] w = "10"       -> Rep("d", 2)
          [] w = "Foundation"   -> <<"U">> \o Rep("l", 9)
          [] w = "Level"        -> <<"U">> \o Rep("l", 4)
          [] w = "Extensions"   -> <<"U">> \o Rep("l", 9)
          [] w = "1."           -> <<"d", ".">>
          [] w = "Introduction" -> <<"U">> \o Rep("l", 11)
          [] w = "Background"   -> <<"U">> \o Rep("l", 9)
          [] w = "CHAPTER"      -> Rep("U", 7)
          [] w = "SCOPE"        -> Rep("U", 5)
          [] w = "In"           -> <<"U", "l">>
          [] w = "section."     -> Rep("l", 7) \o <<".">>
          [] w = "The"          -> <<"U">> \o Rep("l", 2)
          [] w = "End"          -> <<"U">> \o Rep("l", 2)
          [] w = "1)"           -> <<"d", ")">>
          [] w = "Hi"           -> <<"U", "l">>
          [] w = "Unknown"      -> <<"U">> \o Rep("l", 6)
          [] w = "Document"     -> <<"U">> \o Rep("l", 7)
          [] w = "1.1.1"        -> <<"d", ".", "d", ".", "d">>]

Chars(w) == CharsOf[w]

\* str.lower() of one word.
Lower(w) ==
    CASE w = "Syllabus" -> "syllabus"
      [] w = "Overview" -> "overview"
      [] w = "Chapter"  -> "chapter"
      [] w = "Scope"    -> "scope"
      [] w = "Note"     -> "note"
      [] w = "Aims"     -> "aims"
      [] w = "Unknown"  -> "unknown"
      [] w = "Document" -> "document"
      [] w = "Page"         -> "page"
      [] w = "Foundation"   -> "foundation"
      [] w = "Level"        -> "level"
      [] w = "Extensions"   -> "extensions"
      [] w = "Introduction" -> "introduction"
      [] w = "Background"   -> "background"
      [] w = "CHAPTER"      -> "chapter"
      [] w = "SCOPE"        -> "scope"
      [] w = "In"           -> "in"
      [] w = "The"          -> "the"
      [] w = "End"          -> "end"
      [] w = "Hi"           -> "hi"
      [] OTHER          -> w

\* The characters of a text: its words joined by one blank ("s").
RECURSIVE TextChars(_)
TextChars(t) ==
    IF t = <<>> THEN <<>>
    ELSE IF Len(t) = 1 THEN Chars(t[1])
    ELSE Chars(t[1]) \o <<"s">> \o TextChars(Tail(t))

\* len(text)
TextLen(t) == Len(TextChars(t))

\* set(text.lower().split())
LowerWords(t) == {Lower(t[i]) : i \in DOMAIN t}

\* len(text.split())
WordCount(t) == Len(t)

\* " ".join(texts) of non-empty stripped texts.
RECURSIVE JoinTexts(_)
JoinTexts(ts) == IF ts = <<>> THEN <<>> ELSE ts[1] \o JoinTexts(Tail(ts))

\* " - ".join(texts)
RECURSIVE JoinDash(_)
JoinDash(ts) ==
    IF ts = <<>> THEN <<>>
    ELSE IF Len(ts) = 1 THEN ts[1]
    ELSE ts[1] \o <<"-">> \o JoinDash(Tail(ts))

\* text.split(" - "): a "-" word that has a word on each side separates.
RECURSIVE SplitDashFrom(_, _)
SplitDashFrom(t, cur) ==
    IF t = <<>> THEN <<cur>>
    ELSE IF t[1] = "-" /\ cur # <<>> /\ Len(t) > 1
         THEN <<cur>> \o SplitDashFrom(Tail(t), <<>>)
         ELSE SplitDashFrom(Tail(t), Append(cur, t[1]))

SplitDash(t) == SplitDashFrom(t, <<>>)

IsDigitsSeq(cs) == cs # <<>> /\ \A i \in DOMAIN cs : cs[i] = "d"

\* The length of the longest prefix of digits.
RECURSIVE DigitPrefix(_)
DigitPrefix(cs) ==
    IF cs # <<>> /\ cs[1] = "d" THEN 1 + DigitPrefix(Tail(cs)) ELSE 0

\* re.match(r'^\d+', w) consuming the whole word.
IsNum(w) == IsDigitsSeq(Chars(w))

\* The word is d+ "." d+ ... with n numbers: "1.1" for n = 2.
RECURSIVE IsDotted(_, _)
IsDotted(cs, n) ==
    LET k == DigitPrefix(cs)
    IN  /\ k > 0
        /\ IF n = 1 THEN k = Len(cs)
           ELSE /\ Len(cs) > k
                /\ cs[k + 1] = "."
                /\ IsDotted(SubSeq(cs, k + 2, Len(cs)), n - 1)

\* The word is d+ followed by exactly one character of the set seps.
IsNumThen(w, seps) ==
    LET cs == Chars(w)
    IN  /\ Len(cs) >= 2
        /\ IsDigitsSeq(SubSeq(cs, 1, Len(cs) - 1))
        /\ cs[Len(cs)] \in seps

StartsUpper(w) == Chars(w)[1] = "U"

StartsUpperLower(w) ==
    LET cs == Chars(w) IN Len(cs) >= 2 /\ cs[1] = "U" /\ cs[2] = "l"

HasDot(cs) == \E i \in DOMAIN cs : cs[i] = "."

\* str.isupper(): a cased character, and no lower-case one.
IsUpper(t) ==
    LET cs == TextChars(t)
    IN  /\ \E i \in DOMAIN cs : cs[i] = "U"
        /\ \A i \in DOMAIN cs : cs[i] # "l"

\* str.istitle(): upper-case only after an uncased character, lower-case
\* only after a cased one, and at least one cased character.
IsTitleCase(t) ==
    LET cs == TextChars(t)
        cased(i) == i >= 1 /\ cs[i] \in {"U", "l"}
    IN  /\ \E i \in DOMAIN cs : cs[i] = "U"
        /\ \A i \in DOMAIN cs :
              /\ cs[i] = "U" => ~cased(i - 1)
              /\ cs[i] = "l" => cased(i - 1)

\* keyword in text_lower, for a keyword without blanks: the keyword lies
\* inside one word.  Every word of the vocabulary that holds a keyword is
\* that keyword, in some case.
HasKeyword(t, k) == \E i \in DOMAIN t : Lower(t[i]) = k

\* re.search('.' + k + '.', text_lower): the keyword with a character on
\* each side.
HasKeywordInside(t, k) ==
    \E i \in DOMAIN t : Lower(t[i]) = k /\ 1 < i /\ i < Len(t)

---------------------------------------------------------------------------
(* The predicates and scores of PDFStructureExtractor.                     *)

\* header_footer_patterns 5 and 6 under re.IGNORECASE.  Patterns 1-4 and 7
\* match only a text holding "International", "Qualifications", "Version"
\* or the copyright sign, and no word of the vocabulary holds one.
MatchesBoilerplate(t) ==
    \/ /\ Len(t) = 4
       /\ Lower(t[1]) = "page"
       /\ IsNum(t[2])
       /\ Lower(t[3]) = "of"
       /\ IsNum(t[4])
    \/ /\ Len(t) = 1
       /\ IsNum(t[1])

\* A noise test that looks for the patterns inside the margins only.
IsHeaderFooterMarginOnly(t, y, page_height) ==
    /\ (10 * y < page_height \/ 10 * y > 9 * page_height)
    /\ MatchesBoilerplate(t)

\* _is_header_footer: the test inside the margins, then the same test
\* whatever the position.
IsHeaderFooter(t, y, page_height) ==
    \/ /\ (10 * y < page_height \/ 10 * y > 9 * page_height)
       /\ MatchesBoilerplate(t)
    \/ MatchesBoilerplate(t)

TitleKeywords == {"syllabus", "foundation", "level", "extensions", "overview",
                  "certification", "qualification", "standard", "guidelines"}

RelatedKeywords == {"overview", "summary", "introduction"}

\* The number of title_patterns that re.search finds in text_lower.
TitlePatternMatches(t) ==
    (IF \E i, j \in DOMAIN t : /\ 1 < i /\ i <= j /\ j < Len(t)
                               /\ Lower(t[i]) = "foundation"
                               /\ Lower(t[j]) = "level"
     THEN 1 ELSE 0)
    + Cardinality({k \in {"syllabus", "overview", "certification",
                          "qualification"} : HasKeywordInside(t, k)})

Min(a, b) == IF a <= b THEN a ELSE b
Max(a, b) == IF a >= b THEN a ELSE b
Abs(a) == IF a >= 0 THEN a ELSE 0 - a

SetMax(S) == CHOOSE x \in S : \A z \in S : z <= x

\* re.match(r'^\d+[\.\s]', text)
StartsWithNumber(t) ==
    LET cs == Chars(t[1])
        k  == DigitPrefix(cs)
    IN  /\ k > 0
        /\ \/ k < Len(cs) /\ cs[k + 1] = "."
           \/ k = Len(cs) /\ Len(t) >= 2

\* _calculate_title_score, lines 99-126: position, keywords, patterns, text
\* characteristics and the penalties on the length.
ScoreFactors(t, y, page) ==
    (IF page = 0 THEN (IF y < 300 THEN 25 ELSE IF y < 500 THEN 15 ELSE 0)
     ELSE 0)
    + Min(Cardinality({k \in TitleKeywords : HasKeyword(t, k)}) * 8, 25)
    + Min(TitlePatternMatches(t) * 10, 10)
    + (IF WordCount(t) >= 2 THEN 5 ELSE 0)
    + (IF IsTitleCase(t) \/ IsUpper(t) THEN 5 ELSE 0)
    - (IF TextLen(t) < 5 THEN 10 ELSE 0)
    - (IF TextLen(t) > 100 THEN 5 ELSE 0)

\* _calculate_title_score without its font-size factor: the factors above
\* and the penalty on a leading number.
ScoreRest(t, y, page) ==
    ScoreFactors(t, y, page) - (IF StartsWithNumber(t) THEN 15 ELSE 0)

\* _calculate_title_score as the fraction num / den: with a statistics table
\* the font-size factor is (font_size / max_font_size) * 30, so the score is
\* (30 * font_size + rest * max_font_size) / max_font_size.  The sizes of the
\* model are positive, so the division is defined.
CalculateTitleScore(t, font_size, y, page, stats) ==
    IF DOMAIN stats # {}
    THEN LET m == SetMax(DOMAIN stats)
         IN  [num |-> Max(0, 30 * font_size + ScoreRest(t, y, page) * m),
              den |-> m]
    ELSE [num |-> Max(0, ScoreRest(t, y, page)), den |-> 1]

\* _is_title_text (font_size is not used by the code).
IsTitleText(t, ttl) ==
    IF ttl = <<>> \/ t = <<>> THEN FALSE
    ELSE \/ t = ttl
         \/ \E i \in DOMAIN SplitDash(ttl) : t = SplitDash(ttl)[i]
         \/ LET text_words  == LowerWords(t)
                title_words == LowerWords(ttl)
            IN  /\ Cardinality(text_words) >= 2
                /\ 5 * Cardinality(text_words \cap title_words)
                      >= 4 * Cardinality(text_words)

StartsWithChapter(w) == w \in {"CHAPTER", "Chapter"}

\* re.match of one of heading_patterns.
MatchesHeadingPattern(t) ==
    \/ /\ StartsWithChapter(t[1])
       /\ Len(t) >= 2
       /\ Chars(t[2])[1] = "d"
    \/ /\ IsNumThen(t[1], {"."})
       /\ Len(t) >= 2
       /\ StartsUpper(t[2])
       /\ ~HasDot(TextChars(Tail(t)))
    \/ /\ IsDotted(Chars(t[1]), 2)
       /\ Len(t) >= 2
       /\ StartsUpper(t[2])
    \/ /\ IsDotted(Chars(t[1]), 3)
       /\ Len(t) >= 2
       /\ StartsUpper(t[2])
    \/ /\ \A i \in DOMAIN TextChars(t) : TextChars(t)[i] \in {"U", "s"}
       /\ TextLen(t) >= 5
       /\ TextLen(t) <= 50
    \/ /\ IsNumThen(t[1], {".", ")"})
       /\ Len(t) >= 2
       /\ StartsUpperLower(t[2])

\* re.match(r'^[\d\s\.\-_]+$', text)
OnlyNumbersAndPunctuation(t) ==
    \A i \in DOMAIN TextChars(t) : TextChars(t)[i] \in {"d", "s", ".", "-", "_"}

\* A heading test that tries the structural patterns before the font-size
\* and title rejections.
IsHeadingPatternFirst(t, font_size, ttl) ==
    IF TextLen(t) < 3 \/ TextLen(t) > 200 THEN FALSE
    ELSE IF OnlyNumbersAndPunctuation(t) THEN FALSE
    ELSE IF MatchesHeadingPattern(t) THEN TRUE
    ELSE IF font_size < Pt(11) THEN FALSE
    ELSE IF IsTitleText(t, ttl) THEN FALSE
    ELSE IF font_size >= Pt(13)
         THEN \/ IsUpper(t) /\ WordCount(t) <= 10
              \/ /\ TextChars(t)[1] = "U"
                 /\ TextChars(t)[TextLen(t)] # "."
    ELSE FALSE

\* _is_heading
IsHeading(t, font_size, ttl) ==
    IF TextLen(t) < 3 \/ TextLen(t) > 200 THEN FALSE
    ELSE IF OnlyNumbersAndPunctuation(t) THEN FALSE
    ELSE IF font_size < Pt(11) THEN FALSE
    ELSE IF IsTitleText(t, ttl) THEN FALSE
    ELSE IF MatchesHeadingPattern(t) THEN TRUE
    ELSE IF font_size >= Pt(13)
         THEN \/ IsUpper(t) /\ WordCount(t) <= 10
              \/ /\ TextChars(t)[1] = "U"
                 /\ TextChars(t)[TextLen(t)] # "."
    ELSE FALSE

\* sorted(keys, reverse=True) of the sizes other than the title's.
RECURSIVE SortedDesc(_)
SortedDesc(S) ==
    IF S = {} THEN <<>> ELSE <<SetMax(S)>> \o SortedDesc(S \ {SetMax(S)})

\* A ranking over every size of the table, the title's included.
AvailableSizesAll(stats, tfs) == SortedDesc(DOMAIN stats)

\* Lines 370-374: the sizes of the table other than the title's, largest
\* first.
AvailableSizes(stats, tfs) == SortedDesc({fs \in DOMAIN stats : fs # tfs})

\* A fallback that tries the "N.N.N " pattern after the size thresholds.
FallbackLevelShadowed(t, font_size) ==
    IF IsNumThen(t[1], {"."}) /\ Len(t) >= 2 /\ font_size >= Pt(14) THEN "H1"
    ELSE IF IsDotted(Chars(t[1]), 2) /\ Len(t) >= 2 THEN "H2"
    ELSE IF font_size >= Pt(14) THEN "H1"
    ELSE IF font_size >= Pt(12) THEN "H2"
    ELSE "H3"

\* _determine_heading_level, lines 383-395: the pattern and threshold
\* fallback.
FallbackLevel(t, font_size) ==
    IF IsNumThen(t[1], {"."}) /\ Len(t) >= 2 /\ font_size >= Pt(14) THEN "H1"
    ELSE IF IsDotted(Chars(t[1]), 2) /\ Len(t) >= 2 THEN "H2"
    ELSE IF IsDotted(Chars(t[1]), 3) /\ Len(t) >= 2 THEN "H3"
    ELSE IF font_size >= Pt(14) THEN "H1"
    ELSE IF font_size >= Pt(12) THEN "H2"
    ELSE "H3"

\* A ranking that compares the size with the ranked sizes for equality,
\* without the tolerance and without the threshold.
RankLevelExact(font_size, stats, tfs) ==
    LET available_sizes == AvailableSizes(stats, tfs)
    IN  IF Len(available_sizes) >= 1
        THEN IF font_size = available_sizes[1] THEN "H1"
             ELSE IF Len(available_sizes) >= 2
                     /\ font_size = available_sizes[2] THEN "H2"
             ELSE "H3"
        ELSE None

\* _determine_heading_level, lines 368-381: the level by font-size rank;
\* None when the table has no size other than the title's.
RankLevel(font_size, stats, tfs) ==
    LET available_sizes == AvailableSizes(stats, tfs)
    IN  IF Len(available_sizes) >= 1
        THEN IF font_size >= available_sizes[1] - Pt(1) THEN "H1"
             ELSE IF Len(available_sizes) >= 2
                     /\ font_size >= available_sizes[2] - Pt(1) THEN "H2"
             ELSE "H3"
        ELSE None

\* A levelling that tries the "N.N " pattern before the font-size rank.
DetermineHeadingLevelPatternFirst(t, font_size, ttl, tfs, stats) ==
    IF IsTitleText(t, ttl) THEN "SKIP"
    ELSE IF StartsWithChapter(t[1]) THEN "H1"
    ELSE IF IsDotted(Chars(t[1]), 2) /\ Len(t) >= 2 THEN "H2"
    ELSE IF DOMAIN stats # {} /\ RankLevel(font_size, stats, tfs) # None
         THEN RankLevel(font_size, stats, tfs)
    ELSE FallbackLevel(t, font_size)

\* A levelling without the fallback: no level when the table has no size
\* other than the title's.
DetermineHeadingLevelNoFallback(t, font_size, ttl, tfs, stats) ==
    IF IsTitleText(t, ttl) THEN "SKIP"
    ELSE IF StartsWithChapter(t[1]) THEN "H1"
    ELSE RankLevel(font_size, stats, tfs)

\* _determine_heading_level
DetermineHeadingLevel(t, font_size, ttl, tfs, stats) ==
    IF IsTitleText(t, ttl) THEN "SKIP"
    ELSE IF StartsWithChapter(t[1]) THEN "H1"
    ELSE IF DOMAIN stats # {} /\ RankLevel(font_size, stats, tfs) # None
         THEN RankLevel(font_size, stats, tfs)
    ELSE FallbackLevel(t, font_size)

---------------------------------------------------------------------------
(* Documents: what fitz yields.  A span is [text, size, y] (y is bbox[1]), *)
(* a line a sequence of spans, a block a sequence of lines, a page         *)
(* [height, blocks], a document [pages, fail].  fail names the step of     *)
(* extract_structure at which reading the file raises ("none": never).     *)

RECURSIVE Flatten(_)
Flatten(ss) == IF ss = <<>> THEN <<>> ELSE ss[1] \o Flatten(Tail(ss))

RECURSIVE SumSeq(_)
SumSeq(ns) == IF ns = <<>> THEN 0 ELSE ns[1] + SumSeq(Tail(ns))

\* The lines of a page in reading order, whatever their block.
PageLines(page) == Flatten(page.blocks)

\* _analyze_font_statistics, lines 62-73: the sizes of the spans of the first
\* three pages whose stripped text is longer than 3 characters.
FontSizes(d) ==
    LET spans == Flatten([p \in 1..Min(3, Len(d.pages)) |->
                             Flatten(PageLines(d.pages[p]))])
        long(sp) == sp.text # <<>> /\ TextLen(sp.text) > 3
        kept == SelectSeq(spans, long)
    IN  [i \in DOMAIN kept |-> kept[i].size]

\* collections.Counter(font_sizes)
Counter(sizes) ==
    [fs \in {sizes[i] : i \in DOMAIN sizes} |->
        Cardinality({i \in DOMAIN sizes : sizes[i] = fs})]

\* _extract_title_advanced, lines 152-169: the text, size and bbox of a line
\* from its spans that are not noise and not empty.
TitleLine(line, page_height, page) ==
    LET keep(sp) == ~IsHeaderFooter(sp.text, sp.y, page_height) /\ sp.text # <<>>
        spans == SelectSeq(line, keep)
    IN  [text      |-> JoinTexts([i \in DOMAIN spans |-> spans[i].text]),
         font_size |-> IF spans = <<>> THEN 0
                       ELSE SetMax({spans[i].size : i \in DOMAIN spans}),
         y         |-> IF spans = <<>> THEN 0 ELSE spans[1].y,
         page      |-> page]

\* A grouping that compares a line with the first line of the current
\* group instead of the last.
RECURSIVE GroupLinesFromFirst(_, _)
GroupLinesFromFirst(items, groups) ==
    IF items = <<>> THEN groups
    ELSE LET it == items[1]
             n  == Len(groups)
         IN  IF ~(it.text # <<>> /\ it.font_size > 0)
             THEN GroupLinesFromFirst(Tail(items), groups)
             ELSE IF /\ n > 0
                     /\ Abs(groups[n][1].y - it.y) < 30
                     /\ Abs(groups[n][1].font_size - it.font_size) < Pt(2)
                  THEN GroupLinesFromFirst(Tail(items),
                                  [groups EXCEPT ![n] = Append(@, it)])
                  ELSE GroupLinesFromFirst(Tail(items), Append(groups, <<it>>))

\* Lines 170-193: the groups of the lines of one block.  groups holds the
\* closed groups followed by the current one.
RECURSIVE GroupLines(_, _)
GroupLines(items, groups) ==
    IF items = <<>> THEN groups
    ELSE LET it == items[1]
             n  == Len(groups)
         IN  IF ~(it.text # <<>> /\ it.font_size > 0)
             THEN GroupLines(Tail(items), groups)
             ELSE IF /\ n > 0
                     /\ Abs(groups[n][Len(groups[n])].y - it.y) < 30
                     /\ Abs(groups[n][Len(groups[n])].font_size - it.font_size) < Pt(2)
                  THEN GroupLines(Tail(items),
                                  [groups EXCEPT ![n] = Append(@, it)])
                  ELSE GroupLines(Tail(items), Append(groups, <<it>>))

\* Lines 196-214: the candidate of one group, scored.  The average of the
\* sizes is exact: a group has at most four lines, of whole-point sizes.
CandidateOf(group, page, stats) ==
    LET combined_text == JoinTexts([i \in DOMAIN group |-> group[i].text])
        avg_font_size == SumSeq([i \in DOMAIN group |-> group[i].font_size])
                            \div Len(group)
    IN  [text      |-> combined_text,
         font_size |-> avg_font_size,
         score     |-> CalculateTitleScore(combined_text, avg_font_size,
                                           group[1].y, page, stats),
         spans     |-> group,
         page      |-> page]

\* Lines 137-214: the candidates of pages 0 and 1 in the order the code
\* appends them: page, then block, then group.
BlockCandidates(block, page_height, page, stats) ==
    LET items  == [i \in DOMAIN block |-> TitleLine(block[i], page_height, page)]
        groups == GroupLines(items, <<>>)
        all    == [i \in DOMAIN groups |-> CandidateOf(groups[i], page, stats)]
        long(c) == TextLen(c.text) >= 5
    IN  SelectSeq(all, long)

Candidates(d, stats) ==
    Flatten([p \in 1..Min(2, Len(d.pages)) |->
        Flatten([b \in DOMAIN d.pages[p].blocks |->
            BlockCandidates(d.pages[p].blocks[b], d.pages[p].height, p - 1,
                            stats)])])

ScoreLess(a, b) == a.num * b.den < b.num * a.den

\* A maximum that yields the last candidate of maximum score.
BestCandidateLast(cands) ==
    cands[CHOOSE i \in DOMAIN cands :
            /\ \A j \in DOMAIN cands : ~ScoreLess(cands[i].score, cands[j].score)
            /\ \A j \in (i + 1)..Len(cands) :
                  ScoreLess(cands[j].score, cands[i].score)]

\* max(candidates, key=score): the first candidate of maximum score.
BestCandidate(cands) ==
    cands[CHOOSE i \in DOMAIN cands :
            /\ \A j \in DOMAIN cands : ~ScoreLess(cands[i].score, cands[j].score)
            /\ \A j \in 1..(i - 1) : ScoreLess(cands[j].score, cands[i].score)]

\* An insertion that puts a pair before the pairs of equal key: the sort
\* built on it is not stable.
RECURSIVE InsertByKeyUnstable(_, _)
InsertByKeyUnstable(sorted, x) ==
    IF sorted = <<>> THEN <<x>>
    ELSE IF sorted[Len(sorted)][1] < x[1] THEN Append(sorted, x)
    ELSE Append(InsertByKeyUnstable(SubSeq(sorted, 1, Len(sorted) - 1), x),
                sorted[Len(sorted)])

\* list.sort(key=...) and sorted(key=...) on <<key, value>> pairs: a stable
\* insertion sort on the key.
RECURSIVE InsertByKey(_, _)
InsertByKey(sorted, x) ==
    IF sorted = <<>> THEN <<x>>
    ELSE IF sorted[Len(sorted)][1] <= x[1] THEN Append(sorted, x)
    ELSE Append(InsertByKey(SubSeq(sorted, 1, Len(sorted) - 1), x),
                sorted[Len(sorted)])

RECURSIVE SortByKey(_)
SortByKey(s) ==
    IF s = <<>> THEN <<>>
    ELSE InsertByKey(SortByKey(SubSeq(s, 1, Len(s) - 1)), s[Len(s)])

\* Lines 223-233: the candidates merged into the title with the best one.
RelatedParts(cands, best) ==
    LET related(c) ==
            /\ c # best
            /\ c.page = best.page
            /\ Abs(c.spans[1].y - best.spans[1].y) < 100
            /\ \E k \in RelatedKeywords : HasKeyword(c.text, k)
    IN  SelectSeq(cands, related)

\* A merge that joins the parts in the order primary, then related parts,
\* without sorting them by position.
MergedTitleUnsorted(all_parts, best) ==
    <<JoinDash([i \in DOMAIN all_parts |-> all_parts[i].text]),
      best.font_size, best.spans>>

\* Lines 236-241: the parts sorted by the position of their first line and
\* joined: <<title, title_font_size, title_spans>>.
MergedTitle(all_parts, best) ==
    <<JoinDash([i \in DOMAIN all_parts |->
          SortByKey([j \in DOMAIN all_parts |->
              <<all_parts[j].spans[1].y, all_parts[j].text>>])[i][2]]),
      best.font_size, best.spans>>

\* A selection that yields the empty title, not the sentinel, when there
\* is no candidate.
SelectTitleEmpty(cands) ==
    IF cands # <<>>
    THEN MergedTitle(<<BestCandidate(cands)>>
                        \o RelatedParts(cands, BestCandidate(cands)),
                     BestCandidate(cands))
    ELSE <<<<>>, Pt(12), <<>>>>

\* Lines 216-243: the title chosen among the candidates.
SelectTitle(cands) ==
    IF cands # <<>>
    THEN MergedTitle(<<BestCandidate(cands)>>
                        \o RelatedParts(cands, BestCandidate(cands)),
                     BestCandidate(cands))
    ELSE <<<<"Unknown", "Document">>, Pt(12), <<>>>>

\* _extract_title_advanced: <<title, title_font_size, title_spans>>.
ExtractTitleAdvanced(d, stats) ==
    IF Len(d.pages) = 0 THEN <<<<"Unknown", "Document">>, 0, <<>>>>
    ELSE SelectTitle(Candidates(d, stats))

\* _extract_headings, lines 281-296: the text, size and position of a line
\* from its spans that are not noise.  The spans of the model have text.
HeadingLine(line, page_height) ==
    LET keep(sp) == ~IsHeaderFooter(sp.text, sp.y, page_height)
        spans == SelectSeq(line, keep)
    IN  [text      |-> JoinTexts([i \in DOMAIN spans |-> spans[i].text]),
         font_size |-> IF spans = <<>> THEN 0
                       ELSE SetMax({spans[i].size : i \in DOMAIN spans}),
         y         |-> IF spans = <<>> THEN 0 ELSE spans[Len(spans)].y]

\* Lines 313-317 and 326-330: the entry appended for the accumulator.
Flushed(cur) == [level |-> cur.level, text |-> cur.text, page |-> cur.page]

\* A deduplication that keeps the last entry of a (text, page) instead of
\* the first.
RECURSIVE UniqueHeadingsLast(_, _)
UniqueHeadingsLast(hs, seen) ==
    IF hs = <<>> THEN <<>>
    ELSE IF hs[1].level = "SKIP" THEN UniqueHeadingsLast(Tail(hs), seen)
    ELSE IF \E k \in 2..Len(hs) :
                hs[k].text = hs[1].text /\ hs[k].page = hs[1].page
         THEN UniqueHeadingsLast(Tail(hs), seen)
    ELSE <<hs[1]>> \o UniqueHeadingsLast(Tail(hs), seen)

\* _clean_and_sort_headings, lines 401-412: without SKIP entries and
\* without the later entries of a (text, page) already seen.
RECURSIVE UniqueHeadings(_, _)
UniqueHeadings(hs, seen) ==
    IF hs = <<>> THEN <<>>
    ELSE IF hs[1].level = "SKIP" THEN UniqueHeadings(Tail(hs), seen)
    ELSE IF <<hs[1].text, hs[1].page>> \notin seen
         THEN <<hs[1]>> \o UniqueHeadings(Tail(hs),
                                          seen \cup {<<hs[1].text, hs[1].page>>})
    ELSE UniqueHeadings(Tail(hs), seen)

\* _clean_and_sort_headings
CleanAndSortHeadings(hs) ==
    LET unique_headings == UniqueHeadings(hs, {})
        by_page == SortByKey([i \in DOMAIN unique_headings |->
                      <<unique_headings[i].page, unique_headings[i]>>])
    IN  [i \in DOMAIN by_page |-> by_page[i][2]]

Degenerate == [title |-> <<>>, outline |-> <<>>]

---------------------------------------------------------------------------
(* The heading scan of _extract_headings, one line at a time.              *)

\* A scan step that starts a new accumulator without flushing the open one.
ScanStepDropsOpen(cur, hs, hl, page, ttl, tfs, stats) ==
    IF hl.text = <<>> THEN <<cur, hs>>
    ELSE IF IsTitleText(hl.text, ttl) THEN <<cur, hs>>
    ELSE IF IsHeading(hl.text, hl.font_size, ttl)
         THEN LET heading_level ==
                      DetermineHeadingLevel(hl.text, hl.font_size, ttl, tfs, stats)
              IN  IF /\ cur # <<>>
                     /\ Abs(cur[1].y_pos - hl.y) < 20
                     /\ cur[1].level = heading_level
                  THEN <<<<[cur[1] EXCEPT !.text = @ \o hl.text]>>, hs>>
                  ELSE <<<<[text  |-> hl.text, level |-> heading_level,
                            page  |-> page,    y_pos |-> hl.y]>>, hs>>
    ELSE <<cur, hs>>

\* Lines 296-323 for one assembled line hl of page page: the accumulator
\* (<<>> for None, else <<record>>) and the list after the line.
ScanStep(cur, hs, hl, page, ttl, tfs, stats) ==
    IF hl.text = <<>> THEN <<cur, hs>>
    ELSE IF IsTitleText(hl.text, ttl) THEN <<cur, hs>>
    ELSE IF IsHeading(hl.text, hl.font_size, ttl)
         THEN LET heading_level ==
                      DetermineHeadingLevel(hl.text, hl.font_size, ttl, tfs, stats)
              IN  IF /\ cur # <<>>
                     /\ Abs(cur[1].y_pos - hl.y) < 20
                     /\ cur[1].level = heading_level
                  THEN <<<<[cur[1] EXCEPT !.text = @ \o hl.text]>>, hs>>
                  ELSE <<<<[text  |-> hl.text, level |-> heading_level,
                            page  |-> page,    y_pos |-> hl.y]>>,
                         IF cur # <<>> THEN Append(hs, Flushed(cur[1])) ELSE hs>>
    ELSE <<cur, hs>>

\* Whether the scan step levels the line (it reaches line 305).
IsLevelled(hl, ttl) ==
    hl.text # <<>> /\ ~IsTitleText(hl.text, ttl) /\ IsHeading(hl.text, hl.font_size, ttl)

\* Lines 325-331: the flush at the end of a page.
EndOfPage(cur, hs) == IF cur # <<>> THEN Append(hs, Flushed(cur[1])) ELSE hs

\* Lines 272-331 for the lines of one page from line k + 1 on.
RECURSIVE ScanPage(_, _, _, _, _, _, _, _)
ScanPageFrom(lines, height, st, page, ttl, tfs, stats) ==
    ScanPage(lines, height, st[1], st[2], page, ttl, tfs, stats)

ScanPage(lines, height, cur, hs, page, ttl, tfs, stats) ==
    IF lines = <<>> THEN EndOfPage(cur, hs)
    ELSE ScanPageFrom(Tail(lines), height,
                      ScanStep(cur, hs, HeadingLine(lines[1], height), page,
                               ttl, tfs, stats),
                      page, ttl, tfs, stats)

RECURSIVE ScanPages(_, _, _, _, _, _)
ScanPages(pages, page, hs, ttl, tfs, stats) ==
    IF pages = <<>> THEN hs
    ELSE ScanPages(Tail(pages), page + 1,
                   ScanPage(PageLines(pages[1]), pages[1].height, <<>>, hs,
                            page, ttl, tfs, stats),
                   ttl, tfs, stats)

\* _extract_headings
ExtractHeadings(d, ttl, tfs, stats) ==
    CleanAndSortHeadings(ScanPages(d.pages, 0, <<>>, ttl, tfs, stats))

\* A table that is updated with the sizes of the document and keeps the
\* counts it held: Counter.update in place of the assignment.
StatsUpdated(old, d) ==
    LET new == Counter(FontSizes(d))
    IN  [fs \in DOMAIN old \cup DOMAIN new |->
            (IF fs \in DOMAIN old THEN old[fs] ELSE 0)
            + (IF fs \in DOMAIN new THEN new[fs] ELSE 0)]

\* self.font_size_stats = Counter(font_sizes): the table after line 75, given
\* the table before it.
StatsAssigned(old, d) == Counter(FontSizes(d))

\* extract_structure, lines 52-55, with the table stats: the result.
ResultWith(d, stats, t) ==
    [title |-> t[1], outline |-> ExtractHeadings(d, t[1], t[2], stats)]

ResultWithStats(d, stats) == ResultWith(d, stats, ExtractTitleAdvanced(d, stats))

\* extract_structure on an extractor whose fields are those of __init__.
FreshResult(d) ==
    IF d.fail # "none" THEN Degenerate
    ELSE ResultWithStats(d, StatsAssigned(<<>>, d))

---------------------------------------------------------------------------
(* The documents of the model.                                             *)

\* The lines of the documents: one span each.
LinePool ==
    {[text |-> <<"Syllabus">>,       size |-> Pt(16)],
     [text |-> <<"Overview">>,       size |-> Pt(16)],
     [text |-> <<"Overview">>,       size |-> Pt(13)],
     [text |-> <<"Chapter", "1">>,   size |-> Pt(11)],
     [text |-> <<"1.1", "Scope">>,   size |-> Pt(13)],
     [text |-> <<"Note">>,           size |-> Pt(13)],
     [text |-> <<"Note">>,           size |-> Pt(16)],
     [text |-> <<"Note">>,           size |-> Pt(11)],
     [text |-> <<"Aims">>,           size |-> Pt(13)],
     [text |-> <<"1">>,              size |-> Pt(13)]}

\* Where a line lies after the line before it: "line" in the same block 15
\* units below, "block" in a new block 15 units below, "far" in a new block
\* 40 units below, "gap" in the same block 30 units below, "page" at the top
\* of the next page.  A page is 800 units high and its first line lies at
\* y = 100.
Breaks == {"line", "block", "far", "page"}

Descs == [text : {l.text : l \in LinePool}, size : {l.size : l \in LinePool},
          brk : Breaks]

DescOk(ds) ==
    /\ \A i \in DOMAIN ds :
          [text |-> ds[i].text, size |-> ds[i].size] \in LinePool
    /\ ds # <<>> => ds[1].brk \in {"block", "page"}
    /\ Cardinality({i \in DOMAIN ds : ds[i].brk = "page"}) < MaxPages

DescSeqs(n) == UNION {{ds \in [1..k -> Descs] : DescOk(ds)} : k \in 0..n}

EmptyPage == [height |-> 800, blocks |-> <<>>]

\* The pages a sequence of line descriptions stands for.
RECURSIVE BuildPages(_, _, _)
BuildPages(ds, pages, y) ==
    IF ds = <<>> THEN pages
    ELSE LET d    == ds[1]
             n    == Len(pages)
             ny   == CASE d.brk = "page"          -> 100
                       [] d.brk = "far"           -> y + 40
                       [] d.brk = "gap"           -> y + 30
                       [] OTHER                   -> y + 15
             line == <<[text |-> d.text, size |-> d.size, y |-> ny]>>
             nb   == Len(pages[n].blocks)
         IN  CASE d.brk = "page" ->
                    BuildPages(Tail(ds),
                        Append(pages, [height |-> 800,
                                       blocks |-> <<<<line>>>>]), ny)
               [] d.brk \in {"line", "gap"} /\ nb > 0 ->
                    BuildPages(Tail(ds),
                        [pages EXCEPT ![n].blocks[nb] = Append(@, line)], ny)
               [] OTHER ->
                    BuildPages(Tail(ds),
                        [pages EXCEPT ![n].blocks = Append(@, <<line>>)], ny)

BuildDoc(ds) ==
    [pdf   |-> TRUE,
     pages |-> IF ds = <<>> THEN <<>>
               ELSE BuildPages(ds, <<EmptyPage>>, 85),
     fail  |-> "none"]

Docs(n) == {BuildDoc(ds) : ds \in DescSeqs(n)}

\* Documents of one page with the line "Page 3 of 10" in the bottom margin,
\* as one span or split into several, below a title line or alone.
NoiseSplits ==
    {<<<<"Page", "3", "of", "10">>>>,
     <<<<"Page", "3">>, <<"of", "10">>>>,
     <<<<"Page">>, <<"3">>, <<"of", "10">>>>,
     <<<<"Page", "3", "of">>, <<"10">>>>}

NoiseDocs ==
    {[pdf   |-> TRUE,
      pages |-> <<[height |-> 800,
                   blocks |-> above \o
                       <<<<[i \in DOMAIN sp |->
                              [text |-> sp[i], size |-> fs, y |-> 760]]>>>>]>>,
      fail  |-> "none"] :
        sp \in NoiseSplits, fs \in {Pt(11), Pt(13)},
        above \in {<<>>, <<<<<<[text |-> <<"Syllabus">>, size |-> Pt(16),
                                y |-> 100]>>>>>>}}

\* Documents of one page with one block of three lines set 7 units apart:
\* heading lines with a body line or a heading line between them.
TightDocs ==
    {[pdf   |-> TRUE,
      pages |-> <<[height |-> 800,
                   blocks |-> <<<<
                       <<[text |-> <<"Aims">>, size |-> Pt(13), y |-> 100]>>,
                       <<[text |-> mid.text, size |-> mid.size, y |-> 107]>>,
                       <<[text |-> last, size |-> Pt(13), y |-> 114]>>
                   >>>>]>>,
      fail  |-> "none"] :
        mid \in {[text |-> <<"Note">>, size |-> Pt(11)],
                 [text |-> <<"In", "section.">>, size |-> Pt(13)],
                 [text |-> <<"Note">>, size |-> Pt(13)]},
        last \in {<<"Aims">>, <<"Note">>}}

\* Unreadable files: fitz.open raises ("open"), or the first get_text of
\* a later step does.
Unreadable ==
    {[BuildDoc(<<[text |-> t, size |-> Pt(16), brk |-> "block"]>>)
         EXCEPT !.fail = f] : t \in {<<"Syllabus">>, <<"Note">>},
                              f \in {"open", "stats", "title", "scan"}}
    \cup {[BuildDoc(<<>>) EXCEPT !.fail = "open"]}

\* A file of the folder whose name does not end in ".pdf".
NotPdf == [pdf |-> FALSE, pages |-> <<>>, fail |-> "none"]

NoDoc == [pdf |-> TRUE, pages |-> <<>>, fail |-> "none"]

BatchFiles == Docs(1) \cup Unreadable \cup {NotPdf}

Folders ==
    {<<f>> : f \in Docs(MaxLines) \cup NoiseDocs \cup TightDocs}
    \cup UNION {[1..k -> BatchFiles] : k \in 1..MaxFiles}

---------------------------------------------------------------------------
(* The extractor and the batch driver as a state machine.                  *)

\* The fields after __init__ and the locals of main before its loop.
Constructed ==
    /\ idx = 0
    /\ outputs = <<>>
    /\ pc = "main"
    /\ doc = NoDoc
    /\ title = <<>>
    /\ title_font_size = 0
    /\ title_spans = <<>>
    /\ font_size_stats = <<>>
    /\ page_num = 0
    /\ line_num = 0
    /\ current_heading = <<>>
    /\ headings = <<>>
    /\ result = Degenerate
    /\ levelled = {}
    /\ merged = {}
    /\ probe = <<>>

Init ==
    /\ folder \in Folders
    /\ Constructed

\* main, lines 427-432: the next file of the listing is a PDF and
\* extract_structure is called on it.
NextFile ==
    /\ pc = "main"
    /\ idx < Len(folder)
    /\ folder[idx + 1].pdf
    /\ pc' = "open"
    /\ doc' = folder[idx + 1]
    /\ page_num' = 0
    /\ line_num' = 0
    /\ current_heading' = <<>>
    /\ headings' = <<>>
    /\ levelled' = {}
    /\ merged' = {}
    /\ UNCHANGED <<folder, idx, outputs, title, title_font_size, title_spans,
                   font_size_stats, result, probe>>

\* main, lines 427-428: a file whose name does not end in ".pdf".
SkipFile ==
    /\ pc = "main"
    /\ idx < Len(folder)
    /\ ~folder[idx + 1].pdf
    /\ idx' = idx + 1
    /\ UNCHANGED <<folder, outputs, pc, doc, title, title_font_size,
                   title_spans, font_size_stats, page_num, line_num,
                   current_heading, headings, result, levelled, merged, probe>>

\* extract_structure, line 50: fitz.open succeeds.
Open ==
    /\ pc = "open"
    /\ doc.fail # "open"
    /\ pc' = "stats"
    /\ UNCHANGED <<folder, idx, outputs, doc, title, title_font_size,
                   title_spans, font_size_stats, page_num, line_num,
                   current_heading, headings, result, levelled, merged, probe>>

\* extract_structure, line 51: _analyze_font_statistics.
AnalyzeFontStatistics ==
    /\ pc = "stats"
    /\ doc.fail # "stats"
    /\ font_size_stats' = StatsAssigned(font_size_stats, doc)
    /\ pc' = "title"
    /\ UNCHANGED <<folder, idx, outputs, doc, title, title_font_size,
                   title_spans, page_num, line_num, current_heading, headings,
                   result, levelled, merged, probe>>

\* A title detection that also takes the title's font size out of the
\* table, instead of leaving that to _determine_heading_level.
ExtractTitleTrimsTable ==
    /\ pc = "title"
    /\ doc.fail # "title"
    /\ LET t == ExtractTitleAdvanced(doc, font_size_stats)
       IN  /\ title' = t[1]
           /\ title_font_size' = t[2]
           /\ title_spans' = t[3]
           /\ font_size_stats' = [fs \in DOMAIN font_size_stats \ {t[2]} |->
                                      font_size_stats[fs]]
    /\ pc' = "scan"
    /\ UNCHANGED <<folder, idx, outputs, doc, page_num, line_num,
                   current_heading, headings, result, levelled, merged, probe>>

\* extract_structure, line 52: _extract_title_advanced and the assignment of
\* its three results.
ExtractTitle ==
    /\ pc = "title"
    /\ doc.fail # "title"
    /\ LET t == ExtractTitleAdvanced(doc, font_size_stats)
       IN  /\ title' = t[1]
           /\ title_font_size' = t[2]
           /\ title_spans' = t[3]
    /\ pc' = "scan"
    /\ UNCHANGED <<folder, idx, outputs, doc, font_size_stats, page_num,
                   line_num, current_heading, headings, result, levelled,
                   merged, probe>>

\* The effect of the scan step on the variables of the scan, given the
\* assembled line hl and the pair st the step yields.
ScanEffect(hl, st, level) ==
    /\ current_heading' = st[1]
    /\ headings' = st[2]
    /\ IF IsLevelled(hl, title)
       THEN /\ levelled' = levelled \cup
                   {[text |-> hl.text, font_size |-> hl.font_size,
                     level |-> level]}
            /\ merged' = merged \cup {<<page_num, hl.y>>}
       ELSE UNCHANGED <<levelled, merged>>

ScanLineOf(hl) ==
    ScanEffect(hl,
               ScanStep(current_heading, headings, hl, page_num, title,
                        title_font_size, font_size_stats),
               DetermineHeadingLevel(hl.text, hl.font_size, title,
                                     title_font_size, font_size_stats))

\* _extract_headings, lines 280-323: the next line of the page.
ScanLine ==
    /\ pc = "scan"
    /\ doc.fail # "scan"
    /\ page_num < Len(doc.pages)
    /\ line_num < Len(PageLines(doc.pages[page_num + 1]))
    /\ ScanLineOf(HeadingLine(PageLines(doc.pages[page_num + 1])[line_num + 1],
                              doc.pages[page_num + 1].height))
    /\ line_num' = line_num + 1
    /\ UNCHANGED <<folder, idx, outputs, pc, doc, title, title_font_size,
                   title_spans, font_size_stats, page_num, result, probe>>

\* An end of page that keeps the accumulator open for the next page.
EndPageKeepsOpen ==
    /\ pc = "scan"
    /\ doc.fail # "scan"
    /\ page_num < Len(doc.pages)
    /\ line_num = Len(PageLines(doc.pages[page_num + 1]))
    /\ page_num' = page_num + 1
    /\ line_num' = 0
    /\ UNCHANGED <<folder, idx, outputs, pc, doc, title, title_font_size,
                   title_spans, font_size_stats, current_heading, headings,
                   result, levelled, merged, probe>>

\* _extract_headings, lines 325-331: the end of a page.
EndPage ==
    /\ pc = "scan"
    /\ doc.fail # "scan"
    /\ page_num < Len(doc.pages)
    /\ line_num = Len(PageLines(doc.pages[page_num + 1]))
    /\ headings' = EndOfPage(current_heading, headings)
    /\ current_heading' = <<>>
    /\ page_num' = page_num + 1
    /\ line_num' = 0
    /\ UNCHANGED <<folder, idx, outputs, pc, doc, title, title_font_size,
                   title_spans, font_size_stats, result, levelled, merged, probe>>

\* _extract_headings, line 333, extract_structure, lines 54-55, and main,
\* lines 434-440: the outline is cleaned, the result returned and written.
Return ==
    /\ pc = "scan"
    /\ doc.fail # "scan"
    /\ page_num = Len(doc.pages)
    /\ result' = [title |-> title, outline |-> CleanAndSortHeadings(headings)]
    /\ outputs' = Append(outputs, result')
    /\ idx' = idx + 1
    /\ pc' = "main"
    /\ UNCHANGED <<folder, doc, title, title_font_size, title_spans,
                   font_size_stats, page_num, line_num, current_heading,
                   headings, levelled, merged, probe>>

\* An extract_structure without the except clause: the exception leaves
\* extract_structure and main, and nothing is written.
ExceptPropagates ==
    /\ pc = doc.fail
    /\ pc' = "raised"
    /\ UNCHANGED <<folder, idx, outputs, doc, title, title_font_size,
                   title_spans, font_size_stats, page_num, line_num,
                   current_heading, headings, result, levelled, merged, probe>>

\* extract_structure, lines 56-58, and main, lines 434-440: the step raises,
\* the degenerate result is returned and written.
Except ==
    /\ pc = doc.fail
    /\ result' = Degenerate
    /\ outputs' = Append(outputs, result')
    /\ idx' = idx + 1
    /\ pc' = "main"
    /\ UNCHANGED <<folder, doc, title, title_font_size, title_spans,
                   font_size_stats, page_num, line_num, current_heading,
                   headings, levelled, merged, probe>>

Next ==
    \/ NextFile
    \/ SkipFile
    \/ Open
    \/ AnalyzeFontStatistics
    \/ ExtractTitle
    \/ ScanLine
    \/ EndPage
    \/ Return
    \/ Except

Spec == Init /\ [][Next]_vars

---------------------------------------------------------------------------
(* Levelling on its own.  _analyze_font_statistics reads pages 0-2 and     *)
(* _extract_title_advanced pages 0-1, so the lines of the later pages are  *)
(* free once the table and the title are fixed: the extractor has analysed *)
(* a document that starts with the pages of doc, and levels heading lines  *)
(* of its later pages.                                                     *)

LevelTexts == {<<"Syllabus">>, <<"Overview">>, <<"Chapter", "1">>,
               <<"1.1", "Scope">>, <<"Note">>}

LevelSizes == {Pt(11), Pt(13), Pt(14), Pt(16)}

InitLevel ==
    /\ doc \in Docs(MaxLines - 1)
    /\ folder = <<doc>>
    /\ idx = 0
    /\ outputs = <<>>
    /\ pc = "scan"
    /\ font_size_stats = StatsAssigned(<<>>, doc)
    /\ title = ExtractTitleAdvanced(doc, font_size_stats)[1]
    /\ title_font_size = ExtractTitleAdvanced(doc, font_size_stats)[2]
    /\ title_spans = ExtractTitleAdvanced(doc, font_size_stats)[3]
    /\ page_num = 3
    /\ line_num = 0
    /\ current_heading = <<>>
    /\ headings = <<>>
    /\ result = Degenerate
    /\ levelled = {}
    /\ merged = {}
    /\ probe = <<>>

\* _extract_headings, lines 301-305, for a line of a later page: the line
\* is not title text, is a heading, and is levelled.
LevelLine ==
    /\ Cardinality(levelled) < MaxLevelled
    /\ \E t \in LevelTexts, fs \in LevelSizes :
          /\ ~IsTitleText(t, title)
          /\ IsHeading(t, fs, title)
          /\ levelled' = levelled \cup
                {[text |-> t, font_size |-> fs,
                  level |-> DetermineHeadingLevel(t, fs, title,
                               title_font_size, font_size_stats)]}
    /\ UNCHANGED <<folder, idx, outputs, pc, doc, title, title_font_size,
                   title_spans, font_size_stats, page_num, line_num,
                   current_heading, headings, result, merged, probe>>

NextLevel == LevelLine

SpecLevel == InitLevel /\ [][NextLevel]_vars

---------------------------------------------------------------------------
(* The batch driver on its own: the folders of several files.             *)

InitBatch ==
    /\ folder \in UNION {[1..k -> BatchFiles] : k \in 1..MaxFiles}
    /\ Constructed

SpecBatch == InitBatch /\ [][Next]_vars

---------------------------------------------------------------------------
(* Title extraction on its own, on the first pages of documents with the   *)
(* lines of title pages: a three-word title in a large size, subtitles in   *)
(* sizes one point apart, numbered lines, and a line of one short span.    *)

TitlePool ==
    {[text |-> <<"Foundation", "Level", "Extensions">>, size |-> Pt(24)],
     [text |-> <<"Overview">>,     size |-> Pt(16)],
     [text |-> <<"Overview">>,     size |-> Pt(15)],
     [text |-> <<"Overview">>,     size |-> Pt(14)],
     [text |-> <<"Syllabus">>,     size |-> Pt(16)],
     [text |-> <<"The">>,          size |-> Pt(24)],
     [text |-> <<"1)", "Scope">>,  size |-> Pt(13)],
     [text |-> <<"1.1", "Scope">>, size |-> Pt(13)],
     [text |-> <<"Note">>,         size |-> Pt(11)]}

TitleBreaks == {"line", "gap", "block", "page"}

TitleDescs ==
    {[text |-> l.text, size |-> l.size, brk |-> b] :
        l \in TitlePool, b \in TitleBreaks}

TitleDescOk(ds) ==
    /\ ds[1].brk = "block"
    /\ Cardinality({i \in DOMAIN ds : ds[i].brk = "page"}) < MaxPages

TitleDocs ==
    {BuildDoc(ds) :
        ds \in UNION {{x \in [1..k -> TitleDescs] : TitleDescOk(x)} :
                        k \in 1..MaxLines}}

\* Documents of one page with two lines whose sizes are a quarter of a
\* point apart, as the sizes of PDF spans are floats.
FractionDocs ==
    {[pdf   |-> TRUE,
      pages |-> <<[height |-> 800,
                   blocks |-> <<
                       <<<<[text |-> <<"Overview">>, size |-> Pt(13),
                            y |-> 100]>>>>,
                       <<<<[text |-> t, size |-> fs, y |-> 140]>>>> >>]>>,
      fail  |-> "none"] :
        t \in {<<"Overview">>, <<"The">>},
        fs \in {Pt(13) + Pt(1) \div 4, Pt(13) - Pt(1) \div 4}}

InitTitle ==
    /\ doc \in TitleDocs \cup FractionDocs
    /\ folder = <<doc>>
    /\ idx = 0
    /\ outputs = <<>>
    /\ pc = "stats"
    /\ title = <<>>
    /\ title_font_size = 0
    /\ title_spans = <<>>
    /\ font_size_stats = <<>>
    /\ page_num = 0
    /\ line_num = 0
    /\ current_heading = <<>>
    /\ headings = <<>>
    /\ result = Degenerate
    /\ levelled = {}
    /\ merged = {}
    /\ probe = <<>>

NextTitle ==
    \/ AnalyzeFontStatistics
    \/ ExtractTitle

SpecTitle == InitTitle /\ [][NextTitle]_vars

---------------------------------------------------------------------------
(* The predicates called on their own.  The extractor is in a state that   *)
(* extract_structure leaves behind (or the state after construction), and  *)
(* one of _is_heading, _determine_heading_level and _is_header_footer is   *)
(* called once with a text, a size or a position; probe records the call    *)
(* and what it returned.                                                   *)

\* A span of a title found by _extract_title_advanced.
CallSpans(t, fs) == <<[text |-> t, font_size |-> fs, y |-> 100, page |-> 0]>>

\* title, title_font_size and title_spans after construction, after a
\* document without a candidate, and after documents with a title: of one
\* line, of a primary line with a subtitle, and of two lines of 16pt and
\* 15pt grouped into one candidate of the average size.  The table may stem
\* from a later file than the title: extract_structure assigns the table,
\* and keeps the title of the file before when the title step raises.
CallTitles ==
    {[title |-> <<>>, title_font_size |-> 0, title_spans |-> <<>>],
     [title |-> <<"Unknown", "Document">>, title_font_size |-> Pt(12),
      title_spans |-> <<>>]}
    \cup {[title |-> t, title_font_size |-> fs,
           title_spans |-> CallSpans(t, fs)] :
            t \in {<<"Syllabus", "Overview">>, <<"1.", "Introduction">>,
                   <<"Chapter", "1">>},
            fs \in {Pt(13), Pt(16)}}
    \cup {[title |-> <<"Syllabus", "-", "Overview">>, title_font_size |-> fs,
           title_spans |-> CallSpans(<<"Syllabus">>, fs)] :
            fs \in {Pt(16), Pt(24)}}
    \cup {[title |-> <<"Syllabus", "Overview">>,
           title_font_size |-> (Pt(16) + Pt(15)) \div 2,
           title_spans |->
               <<[text |-> <<"Syllabus">>, font_size |-> Pt(16), y |-> 100,
                  page |-> 0],
                 [text |-> <<"Overview">>, font_size |-> Pt(15), y |-> 115,
                  page |-> 0]>>]}

\* font_size_stats: the empty table, and tables of documents with 40 body
\* spans, 5 spans of 13pt, one of 16pt and one of 15pt.
CallTables ==
    {<<>>,
     (Pt(16) :> 1),
     (Pt(13) :> 5) @@ (Pt(11) :> 40),
     (Pt(16) :> 1) @@ (Pt(13) :> 5) @@ (Pt(11) :> 40),
     (Pt(16) :> 1) @@ (Pt(15) :> 1) @@ (Pt(13) :> 5) @@ (Pt(11) :> 40)}

CallTexts ==
    {<<"Hi">>, Rep("Syllabus", 23), <<"1">>, <<"1.1">>, <<"1", "-", "3">>,
     <<"Chapter", "1">>, <<"CHAPTER">>, <<"SCOPE">>, <<"1", "SCOPE">>,
     <<"1">> \o Rep("SCOPE", 10), <<"In", "section.">>, <<"Scope">>,
     <<"Syllabus">>, <<"Syllabus", "Overview">>, <<"Overview", "Scope">>,
     <<"1.", "Introduction">>, <<"1.1", "Background">>, <<"1)", "Scope">>,
     <<"1.1.1", "Scope">>, <<"Unknown", "Document">>, <<"Document", "Unknown">>,
     <<"of", "10">>}

CallSizes == {Pt(10), Pt(11), Pt(12), Pt(13), Pt(14), Pt(16)}

NoiseTexts ==
    {<<"Page", "3", "of", "10">>, <<"Page", "3">>, <<"of", "10">>, <<"3">>,
     <<"10">>, <<"Syllabus">>, <<"1.1">>, <<"Chapter", "1">>}

Positions == {20, 79, 80, 400, 721}

PageHeights == {800, 400}

InitCalls ==
    /\ folder = <<>>
    /\ idx = 0
    /\ outputs = <<>>
    /\ pc = "call"
    /\ doc = NoDoc
    /\ \E st \in CallTitles :
          /\ title = st.title
          /\ title_font_size = st.title_font_size
          /\ title_spans = st.title_spans
    /\ font_size_stats \in CallTables
    /\ page_num = 0
    /\ line_num = 0
    /\ current_heading = <<>>
    /\ headings = <<>>
    /\ result = Degenerate
    /\ levelled = {}
    /\ merged = {}
    /\ probe = <<>>

\* _is_heading(text, font_size)
CallIsHeading ==
    /\ pc = "call"
    /\ \E t \in CallTexts, fs \in CallSizes :
          probe' = <<[fn |-> "_is_heading", text |-> t, font_size |-> fs,
                      ret |-> IsHeading(t, fs, title)]>>
    /\ pc' = "returned"
    /\ UNCHANGED <<folder, idx, outputs, doc, title, title_font_size,
                   title_spans, font_size_stats, page_num, line_num,
                   current_heading, headings, result, levelled, merged>>

\* _determine_heading_level(text, font_size)
CallDetermineHeadingLevel ==
    /\ pc = "call"
    /\ \E t \in CallTexts, fs \in CallSizes :
          probe' = <<[fn |-> "_determine_heading_level", text |-> t,
                      font_size |-> fs,
                      ret |-> DetermineHeadingLevel(t, fs, title,
                                 title_font_size, font_size_stats)]>>
    /\ pc' = "returned"
    /\ UNCHANGED <<folder, idx, outputs, doc, title, title_font_size,
                   title_spans, font_size_stats, page_num, line_num,
                   current_heading, headings, result, levelled, merged>>

\* _is_header_footer(text, y_position, page_height)
CallIsHeaderFooter ==
    /\ pc = "call"
    /\ \E t \in NoiseTexts, y \in Positions, h \in PageHeights :
          probe' = <<[fn |-> "_is_header_footer", text |-> t,
                      y_position |-> y, page_height |-> h,
                      ret |-> IsHeaderFooter(t, y, h)]>>
    /\ pc' = "returned"
    /\ UNCHANGED <<folder, idx, outputs, doc, title, title_font_size,
                   title_spans, font_size_stats, page_num, line_num,
                   current_heading, headings, result, levelled, merged>>

NextCalls == CallIsHeading \/ CallDetermineHeadingLevel \/ CallIsHeaderFooter

SpecCalls == InitCalls /\ [][NextCalls]_vars

---------------------------------------------------------------------------
(* The properties.                                                         *)

\* The PDF files of the folder in listing order: outputs[i] is the result
\* written for PdfFiles[i].
PdfFiles == SelectSeq(folder, LAMBDA f : f.pdf)

\* C1: no entry of an outline written has a text equal to the title of its
\* document or to one of the " - "-separated components of that title,
\* entries merged from several lines included.
NoTitleLeakage ==
    \A i \in DOMAIN outputs : \A k \in DOMAIN outputs[i].outline :
        /\ outputs[i].outline[k].text # outputs[i].title
        /\ \A p \in DOMAIN SplitDash(outputs[i].title) :
              outputs[i].outline[k].text # SplitDash(outputs[i].title)[p]

\* The positions <<page, y>> of the lines grouped into the best candidate or
\* into a related part merged into the title.
ConstituentsOf(cands) ==
    IF cands = <<>> THEN {}
    ELSE LET best  == BestCandidate(cands)
             parts == <<best>> \o RelatedParts(cands, best)
         IN  UNION {{<<parts[m].page, parts[m].spans[n].y>> :
                        n \in DOMAIN parts[m].spans} : m \in DOMAIN parts}

TitleConstituents == ConstituentsOf(Candidates(doc, font_size_stats))

\* C2: while a document is scanned, no line that is a constituent of its
\* title has started an outline entry or been merged into one.
NoTitleLineEmitted ==
    pc = "scan" => merged \cap TitleConstituents = {}

SamePair(a, b) == a.text = b.text /\ a.page = b.page

\* The index in headings of the first entry detected with the (text, page)
\* of the entry o.
FirstIndex(o) ==
    CHOOSE k \in DOMAIN headings :
        /\ SamePair(headings[k], o)
        /\ \A m \in 1..(k - 1) : ~SamePair(headings[m], o)

\* C3: the outline extract_structure returns has at most one entry for a
\* (text, page), and that entry is the first one the scan detected with the
\* pair, with its level.
DedupKeepsFirst ==
    pc = "main" =>
        /\ \A i, j \in DOMAIN result.outline :
              SamePair(result.outline[i], result.outline[j]) => i = j
        /\ \A i \in DOMAIN result.outline : \E k \in DOMAIN headings :
              /\ headings[k] = result.outline[i]
              /\ \A m \in 1..(k - 1) : ~SamePair(headings[m], headings[k])

\* C3 happens: the scan detected two entries of one (text, page) with
\* different levels, and the result has been returned.
DedupWitness ==
    /\ pc = "main"
    /\ result.outline # <<>>
    /\ \E k, m \in DOMAIN headings :
          /\ k < m
          /\ SamePair(headings[k], headings[m])
          /\ headings[k].level # headings[m].level

\* C4: the outline extract_structure returns is in ascending page order, and
\* two entries of one page are in the order the scan detected them.
PageOrder ==
    pc = "main" =>
        \A i, j \in DOMAIN result.outline : i < j =>
            /\ result.outline[i].page <= result.outline[j].page
            /\ result.outline[i].page = result.outline[j].page
                  => FirstIndex(result.outline[i]) < FirstIndex(result.outline[j])

\* C4 happens: the returned outline has two entries of one page and an
\* entry of a later page.
PageOrderWitness ==
    /\ pc = "main"
    /\ \E i, j, k \in DOMAIN result.outline :
          /\ i < j /\ j < k
          /\ result.outline[i].page = result.outline[j].page
          /\ result.outline[j].page < result.outline[k].page

\* The depth of a level: H1 is the highest.
Depth(level) ==
    CASE level = "H1" -> 1
      [] level = "H2" -> 2
      [] level = "H3" -> 3

\* The levelled line h got its level from the font-size rank: it does not
\* start with "Chapter" and the table has a size other than the title's.
ByRank(h) ==
    /\ ~StartsWithChapter(h.text[1])
    /\ AvailableSizes(font_size_stats, title_font_size) # <<>>

\* C5 as stated: of two headings of a document, the one levelled with the
\* strictly greater font size is never deeper, whatever their texts.
LevelMonotone ==
    \A a, b \in levelled :
        a.font_size > b.font_size => Depth(a.level) <= Depth(b.level)

\* C5 amended: of two headings of a document that are levelled by the
\* font-size rank, the one with the strictly greater font size is never
\* deeper.
RankLevelMonotone ==
    \A a, b \in levelled :
        (ByRank(a) /\ ByRank(b) /\ a.font_size > b.font_size)
            => Depth(a.level) <= Depth(b.level)

\* C5 happens: two headings levelled by rank, with different sizes and
\* different levels.
RankLevelMonotoneWitness ==
    \E a, b \in levelled :
        /\ ByRank(a) /\ ByRank(b)
        /\ a.font_size > b.font_size
        /\ a.level # b.level

\* C6 as stated: two heading lines of a document with the same font size
\* get the same level, whatever their texts.
LevelStable ==
    \A a, b \in levelled : a.font_size = b.font_size => a.level = b.level

\* C6 amended: two heading lines of a document with the same font size that
\* are levelled by the font-size rank get the same level.
RankLevelStable ==
    \A a, b \in levelled :
        (ByRank(a) /\ ByRank(b) /\ a.font_size = b.font_size)
            => a.level = b.level

\* C6 happens: two headings of one size levelled by rank, whose texts the
\* pattern fallback would level differently.
RankLevelStableWitness ==
    \E a, b \in levelled :
        /\ ByRank(a) /\ ByRank(b)
        /\ a.font_size = b.font_size
        /\ FallbackLevel(a.text, a.font_size) # FallbackLevel(b.text, b.font_size)

\* C7: every result written is the result an extractor fresh from __init__
\* returns for the file, whatever the files the instance processed before.
ResultOfDocumentOnly ==
    \A i \in DOMAIN outputs : outputs[i] = FreshResult(PdfFiles[i])

\* C7 happens: the instance failed part-way on a first file, after it had
\* assigned the table and the title, and has returned an outline for the
\* second.
ResultOfDocumentOnlyWitness ==
    /\ Len(outputs) = 2
    /\ PdfFiles[1].fail = "scan"
    /\ title_font_size # Pt(16)
    /\ outputs[2].outline # <<>>

\* The results written so far: one for every PDF the loop has finished,
\* the degenerate one for a file whose opening or extraction raises.
ContainedSoFar ==
    /\ Len(outputs) = Cardinality({i \in 1..idx : folder[i].pdf})
    /\ \A i \in DOMAIN outputs :
          PdfFiles[i].fail # "none" => outputs[i] = Degenerate

\* C8: a file whose opening or extraction raises gets the degenerate
\* result and one result is written for every PDF the loop has finished;
\* a step that raises is followed by the except clause, control never
\* leaves main, and the loop goes on with the next file while there is one.
FailureContained ==
    /\ ContainedSoFar
    /\ pc \in {"main", "open", "stats", "title", "scan"}
    /\ pc = doc.fail => ENABLED Except
    /\ (pc = "main" /\ idx < Len(folder)) => ENABLED (NextFile \/ SkipFile)

\* C8 happens: the first file raised, and the second has been processed
\* with a title and an outline.
FailureContainedWitness ==
    /\ idx = 2
    /\ Len(outputs) = 2
    /\ PdfFiles[1].fail # "none"
    /\ outputs[1] = Degenerate
    /\ outputs[2].title # <<>>
    /\ outputs[2].outline # <<>>

\* C9: a readable file without pages gets the title "Unknown Document" and
\* the empty outline, and a readable file without a title candidate on
\* pages 0-1 gets the title "Unknown Document".
SentinelTitle ==
    \A i \in DOMAIN outputs :
        PdfFiles[i].fail = "none" =>
            /\ Len(PdfFiles[i].pages) = 0 =>
                  outputs[i] = [title   |-> <<"Unknown", "Document">>,
                                outline |-> <<>>]
            /\ Candidates(PdfFiles[i], Counter(FontSizes(PdfFiles[i]))) = <<>> =>
                  outputs[i].title = <<"Unknown", "Document">>

\* C9 happens: a file without pages and a file with lines but without a
\* title candidate have been processed, the latter with an outline.
SentinelTitleWitness ==
    /\ Len(outputs) = 2
    /\ PdfFiles[1].fail = "none" /\ PdfFiles[2].fail = "none"
    /\ Len(PdfFiles[1].pages) = 0
    /\ Len(PdfFiles[2].pages) > 0
    /\ Candidates(PdfFiles[2], Counter(FontSizes(PdfFiles[2]))) = <<>>
    /\ outputs[2].outline # <<>>

\* C10: every entry of an outline written has level H1, H2 or H3.
LevelsInRange ==
    \A i \in DOMAIN outputs : \A k \in DOMAIN outputs[i].outline :
        outputs[i].outline[k].level \in {"H1", "H2", "H3"}

\* C10 happens: a document with a detected title, whose line the scan
\* skipped, has been written with entries of two levels.
LevelsInRangeWitness ==
    \E i \in DOMAIN outputs :
        /\ outputs[i].title \notin {<<>>, <<"Unknown", "Document">>}
        /\ \E k, m \in DOMAIN outputs[i].outline :
              outputs[i].outline[k].level # outputs[i].outline[m].level

\* The candidates of the document under title extraction, as a set.
CandidateSet ==
    {Candidates(doc, font_size_stats)[i] :
        i \in DOMAIN Candidates(doc, font_size_stats)}

\* The text holds 'overview', 'summary' or 'introduction'.
HoldsSubtitleWord(t) ==
    \E i \in DOMAIN t : Lower(t[i]) \in {"overview", "summary", "introduction"}

\* The primary candidate and the candidates of the set C to be merged with
\* it.
TitleParts(C, primary) ==
    {primary} \cup
    {c \in C :
        /\ c.page = primary.page
        /\ Abs(c.spans[1].y - primary.spans[1].y) < 100
        /\ HoldsSubtitleWord(c.text)}

\* The texts of a set of candidates in ascending position of their first
\* lines.
RECURSIVE ByPosition(_)
ByPosition(S) ==
    IF S = {} THEN <<>>
    ELSE LET c == CHOOSE c \in S : \A d \in S : c.spans[1].y <= d.spans[1].y
         IN  <<c.text>> \o ByPosition(S \ {c})

\* C11: once the title is extracted from a document with a candidate, it is
\* the texts of the primary candidate and of the candidates of its page
\* within 100 units of it that hold a subtitle word, in ascending vertical
\* position, joined with " - ".
TitleMerged ==
    (pc = "scan" /\ title_spans # <<>>) =>
        \A C \in {CandidateSet} :
            /\ \E c \in C : c.spans = title_spans
            /\ \A primary \in {c \in C : c.spans = title_spans} :
                  title = JoinDash(ByPosition(TitleParts(C, primary)))

\* C11 happens: 'Foundation Level Extensions' at size 24 and 'Overview' at
\* size 16 below it give 'Foundation Level Extensions - Overview'.
TitleMergedWitness ==
    /\ pc = "scan"
    /\ title = <<"Foundation", "Level", "Extensions", "-", "Overview">>
    /\ title_font_size = Pt(24)
    /\ \E c \in CandidateSet :
          c.text = <<"Overview">> /\ c.font_size = Pt(16)

\* C12: no title and no outline entry written is a boilerplate text, such as
\* "Page 3 of 10", however the line that holds it is split into spans.
NoBoilerplateWritten ==
    \A i \in DOMAIN outputs :
        /\ ~MatchesBoilerplate(outputs[i].title)
        /\ \A k \in DOMAIN outputs[i].outline :
              ~MatchesBoilerplate(outputs[i].outline[k].text)

\* The statistics table of scenario 5.
Scenario5Table == (Pt(16) :> 1) @@ (Pt(13) :> 5) @@ (Pt(11) :> 40)

\* A call of _determine_heading_level on the table of scenario 5 with a
\* text that is not title text.
Scenario5Call(r) ==
    /\ r.fn = "_determine_heading_level"
    /\ font_size_stats = Scenario5Table
    /\ ~IsTitleText(r.text, title)

\* C13 as stated: with the table {16:1, 13:5, 11:40}, "1. Introduction" at
\* 16pt is levelled H1 and "1.1 Background" at 13pt is levelled H2,
\* whichever font size the title has.
Scenario5AnyTitleSize ==
    \A i \in DOMAIN probe :
        Scenario5Call(probe[i]) =>
            /\ (probe[i].text = <<"1.", "Introduction">>
                /\ probe[i].font_size = Pt(16)) => probe[i].ret = "H1"
            /\ (probe[i].text = <<"1.1", "Background">>
                /\ probe[i].font_size = Pt(13)) => probe[i].ret = "H2"

\* C13: with the table {16:1, 13:5, 11:40}, "1. Introduction" at 16pt is
\* levelled H1 whichever font size the title has, and "1.1 Background" at
\* 13pt is levelled H2 when the title's font size is not 16pt, and H1 when
\* it is 16pt (the ranking then holds 13 and 11 only).
Scenario5Levels ==
    \A i \in DOMAIN probe :
        Scenario5Call(probe[i]) =>
            /\ (probe[i].text = <<"1.", "Introduction">>
                /\ probe[i].font_size = Pt(16)) => probe[i].ret = "H1"
            /\ (probe[i].text = <<"1.1", "Background">>
                /\ probe[i].font_size = Pt(13)) =>
                  probe[i].ret = IF title_font_size = Pt(16) THEN "H1"
                                 ELSE "H2"

Scenario5LevelsWitness ==
    /\ title_font_size = Pt(13)
    /\ title # <<>>
    /\ \E i \in DOMAIN probe :
          /\ Scenario5Call(probe[i])
          /\ probe[i].text = <<"1.1", "Background">>
          /\ probe[i].font_size = Pt(13)
          /\ probe[i].ret = "H2"

\* The rejections of the reference predicate.
Rejected(t, font_size) ==
    \/ TextLen(t) < 3
    \/ TextLen(t) > 200
    \/ OnlyNumbersAndPunctuation(t)
    \/ font_size < Pt(11)
    \/ IsTitleText(t, title)

\* The typographic acceptance of the reference predicate.
LooksLikeHeading(t, font_size) ==
    /\ font_size >= Pt(13)
    /\ \/ IsUpper(t) /\ WordCount(t) <= 10
       \/ StartsUpper(t[1]) /\ TextChars(t)[TextLen(t)] # "."

\* C14: _is_heading returns false for a rejected text, even one that
\* matches a structural pattern; otherwise true for a text that matches a
\* structural pattern; otherwise true exactly for a text of 13pt or more
\* that is upper-case with at most 10 words or starts with an upper-case
\* letter and does not end in a period.  An 11pt line that matches no
\* structural pattern is not a heading.
IsHeadingReference ==
    \A i \in DOMAIN probe :
        probe[i].fn = "_is_heading" =>
            /\ probe[i].ret =
                  (/\ ~Rejected(probe[i].text, probe[i].font_size)
                   /\ \/ MatchesHeadingPattern(probe[i].text)
                      \/ LooksLikeHeading(probe[i].text, probe[i].font_size))
            /\ (probe[i].font_size = Pt(11)
                /\ ~MatchesHeadingPattern(probe[i].text)) => ~probe[i].ret

IsHeadingReferenceWitness ==
    \E i \in DOMAIN probe :
        /\ probe[i].fn = "_is_heading"
        /\ probe[i].text = <<"Chapter", "1">>
        /\ probe[i].font_size = Pt(10)
        /\ MatchesHeadingPattern(probe[i].text)
        /\ ~probe[i].ret

\* At least 80% of the distinct lower-cased words of t are words of ttl.
SharesTitleWords(t, ttl) ==
    5 * Cardinality(LowerWords(t) \cap LowerWords(ttl))
        >= 4 * Cardinality(LowerWords(t))

\* C15: while a document is scanned, no line that shares at least 80% of
\* its distinct words with the title has been taken as a heading, whatever
\* the number of its words.
TitleWordsRejected ==
    pc = "scan" => \A h \in levelled : ~SharesTitleWords(h.text, title)

\* The step is a call of _is_header_footer.
HeaderFooterCalled ==
    /\ probe' # probe
    /\ probe' # <<>>
    /\ probe'[1].fn = "_is_header_footer"

\* C16: a call of _is_header_footer changes no field of the extractor and
\* returns true exactly when the text matches a boilerplate pattern,
\* whatever the position and the page height.
HeaderFooterPure ==
    [][HeaderFooterCalled =>
          /\ probe'[1].ret = MatchesBoilerplate(probe'[1].text)
          /\ UNCHANGED <<title, title_font_size, title_spans,
                         font_size_stats, current_heading, headings, result,
                         outputs>>]_vars

HeaderFooterPureWitness ==
    \E i \in DOMAIN probe :
        /\ probe[i].fn = "_is_header_footer"
        /\ probe[i].text = <<"Page", "3", "of", "10">>
        /\ probe[i].y_position = 400
        /\ probe[i].page_height = 800
        /\ probe[i].ret

\* The candidate at index i of cands is the primary one: the title's spans
\* and font size are its own.
IsPrimary(cands, i) ==
    cands[i].spans = title_spans /\ cands[i].font_size = title_font_size

\* C17: the primary title candidate has the maximum score, and every
\* candidate generated before it has a smaller score.
PrimaryIsFirstMaximum ==
    (pc = "scan" /\ title_spans # <<>>) =>
        \A cands \in {Candidates(doc, font_size_stats)} :
            \E i \in DOMAIN cands :
                /\ IsPrimary(cands, i)
                /\ \A j \in DOMAIN cands :
                      ~ScoreLess(cands[i].score, cands[j].score)
                /\ \A j \in 1..(i - 1) :
                      ScoreLess(cands[j].score, cands[i].score)

PrimaryIsFirstMaximumWitness ==
    /\ pc = "scan"
    /\ \E cands \in {Candidates(doc, font_size_stats)} :
          \E i, j \in DOMAIN cands :
              /\ i < j
              /\ IsPrimary(cands, i)
              /\ cands[j].spans # cands[i].spans
              /\ cands[j].score = cands[i].score

\* C18: the score of every title candidate lies in 0..100, and its
\* font-size factor, 30 times the candidate's size over the largest size of
\* the statistics table, lies in 0..30.
ScoreBounded ==
    pc = "scan" =>
        \A c \in CandidateSet :
            /\ c.score.num >= 0
            /\ c.score.num <= 100 * c.score.den
            /\ font_size_stats # <<>> =>
                  /\ 30 * c.font_size >= 0
                  /\ 30 * c.font_size <= 30 * SetMax(DOMAIN font_size_stats)

\* The score of the candidate c when 15 points are deducted from the sum of
\* its factors, clamped at 0.
PenalisedScore(c) ==
    IF font_size_stats # <<>>
    THEN [num |-> Max(0, 30 * c.font_size
                         + (ScoreFactors(c.text, c.spans[1].y, c.page) - 15)
                              * SetMax(DOMAIN font_size_stats)),
          den |-> SetMax(DOMAIN font_size_stats)]
    ELSE [num |-> Max(0, ScoreFactors(c.text, c.spans[1].y, c.page) - 15),
          den |-> 1]

\* C19: every title candidate whose text starts with a digit has 15 points
\* deducted from its score, whatever follows the leading digits.
NumeralPenalised ==
    pc = "scan" =>
        \A c \in CandidateSet :
            TextChars(c.text)[1] = "d" => c.score = PenalisedScore(c)

\* The non-empty lines of block b of page p (pages from 1), in order.
NonEmptyLines(p, b) ==
    SelectSeq([i \in DOMAIN doc.pages[p].blocks[b] |->
                  TitleLine(doc.pages[p].blocks[b][i], doc.pages[p].height,
                            p - 1)],
              LAMBDA it : it.text # <<>> /\ it.font_size > 0)

\* Line k of items does not join the line before it.
StartsGroup(items, k) ==
    \/ k = 1
    \/ ~(/\ Abs(items[k - 1].y - items[k].y) < 30
         /\ Abs(items[k - 1].font_size - items[k].font_size) < Pt(2))

\* The groups of items: the longest runs of lines each of which joins the
\* line before it.
RunsOf(items) ==
    {SubSeq(items, r[1], r[2]) :
        r \in {x \in (DOMAIN items) \X (DOMAIN items) :
                  /\ x[1] <= x[2]
                  /\ StartsGroup(items, x[1])
                  /\ x[2] = Len(items) \/ StartsGroup(items, x[2] + 1)
                  /\ \A k \in (x[1] + 1)..x[2] : ~StartsGroup(items, k)}}

\* The groups of the blocks of pages 0 and 1 whose combined text has 5
\* characters or more.
LongRuns ==
    UNION {UNION {{g \in RunsOf(NonEmptyLines(p, b)) :
                      TextLen(JoinTexts([i \in DOMAIN g |-> g[i].text])) >= 5} :
                  b \in DOMAIN doc.pages[p].blocks} :
           p \in 1..Min(2, Len(doc.pages))}

\* C20: the title candidates are, one for one, the groups of 5 characters
\* or more, where a line joins the group of the line before it exactly when
\* it is less than 30 units from it and less than 2pt from its size; the
\* text of a candidate is the joined text of its group and its font size
\* the average of the sizes of the group's lines; the title's spans are one
\* of these groups.
GroupedCandidates ==
    pc = "scan" =>
        \A cands \in {Candidates(doc, font_size_stats)} :
            /\ {cands[i].spans : i \in DOMAIN cands} = LongRuns
            /\ Len(cands) = Cardinality(LongRuns)
            /\ \A i \in DOMAIN cands :
                  /\ cands[i].text =
                        JoinTexts([k \in DOMAIN cands[i].spans |->
                                      cands[i].spans[k].text])
                  /\ cands[i].font_size * Len(cands[i].spans) =
                        SumSeq([k \in DOMAIN cands[i].spans |->
                                   cands[i].spans[k].font_size])
            /\ title_spans # <<>> => title_spans \in LongRuns

GroupedCandidatesWitness ==
    /\ pc = "scan"
    /\ Len(title_spans) = 3
    /\ title_font_size = Pt(15)
    /\ title_spans[1].font_size - title_spans[3].font_size = Pt(2)
    /\ \E p \in DOMAIN doc.pages : \E b \in DOMAIN doc.pages[p].blocks :
          Len(doc.pages[p].blocks[b]) = 3

\* The step scans a line that is levelled while a heading is in progress.
LevelledOnOpenHeading ==
    /\ pc = "scan"
    /\ line_num' = line_num + 1
    /\ merged' # merged
    /\ current_heading # <<>>
    /\ current_heading' # <<>>

\* The position of the last line taken into the heading in progress: the
\* lowest levelled line of the page so far.
PreviousLineY == SetMax({m[2] : m \in {x \in merged : x[1] = page_num}})

\* The position of the line the step scans.
ScannedLineY == SetMax({m[2] : m \in merged' \ merged})

\* C21: a levelled line is appended to the heading in progress exactly when
\* it has the level of that heading and lies less than 20 units from the
\* previous line of that heading.
MergeByPreviousLine ==
    [][LevelledOnOpenHeading =>
          ((headings' = headings /\ current_heading'[1].y_pos = current_heading[1].y_pos)
           <=> (/\ current_heading'[1].level = current_heading[1].level
                /\ Abs(ScannedLineY - PreviousLineY) < 20))]_vars

\* Line k of the page being scanned, as _extract_headings assembles it.
ScannedLine(k) ==
    HeadingLine(PageLines(doc.pages[page_num + 1])[k],
                doc.pages[page_num + 1].height)

\* A body line: it has text, is not title text and is not a heading.
IsBodyLine(hl) ==
    /\ hl.text # <<>>
    /\ ~IsTitleText(hl.text, title)
    /\ ~IsHeading(hl.text, hl.font_size, title)

\* C22: a levelled line is not appended to the heading in progress when the
\* line scanned just before it is a body line: the body line has flushed
\* the heading.
BodyLineFlushes ==
    [][(LevelledOnOpenHeading /\ line_num >= 1 /\ IsBodyLine(ScannedLine(line_num)))
          => headings' # headings]_vars

\* The texts of the lines of page p (from 0) as _extract_headings assembles
\* them.
LineTextsOfPage(p) ==
    {HeadingLine(PageLines(doc.pages[p + 1])[k], doc.pages[p + 1].height).text :
        k \in DOMAIN PageLines(doc.pages[p + 1])} \ {<<>>}

\* The text t is line texts of the set S set one after the other.
RECURSIVE MadeOf(_, _)
MadeOf(t, S) ==
    \/ t = <<>>
    \/ \E l \in S : /\ Len(l) <= Len(t)
                    /\ SubSeq(t, 1, Len(l)) = l
                    /\ MadeOf(SubSeq(t, Len(l) + 1, Len(t)), S)

\* An entry or accumulator e lies on one page of the document and is built
\* from lines of that page.
OnOnePage(e) ==
    /\ e.page \in 0..(Len(doc.pages) - 1)
    /\ e.text # <<>>
    /\ MadeOf(e.text, LineTextsOfPage(e.page))

\* While a document is scanned: the accumulator is empty when a page
\* starts, an open accumulator belongs to the page being scanned, and every
\* entry was flushed on a page already scanned or being scanned.
OpenOnlyWithinPage ==
    pc = "scan" =>
        /\ line_num = 0 => current_heading = <<>>
        /\ current_heading # <<>> =>
              /\ current_heading[1].page = page_num
              /\ OnOnePage(current_heading[1])
        /\ \A k \in DOMAIN headings :
              /\ OnOnePage(headings[k])
              /\ headings[k].page <= page_num
              /\ headings[k].page < page_num \/ line_num > 0

\* The step that ends a page flushes the open accumulator.
EndOfPageFlushes ==
    (pc = "scan" /\ page_num' = page_num + 1) =>
        /\ current_heading' = <<>>
        /\ current_heading # <<>> =>
              headings' = Append(headings, Flushed(current_heading[1]))
        /\ current_heading = <<>> => headings' = headings

\* C23: at the end of every page an open accumulator is flushed and the
\* accumulator is empty when the next page starts; every entry is built
\* from lines of one page of the document, whose index is its page field.
PageBoundaryFlush == []OpenOnlyWithinPage /\ [][EndOfPageFlushes]_vars

PageBoundaryFlushWitness ==
    /\ pc = "scan"
    /\ page_num = 1
    /\ line_num = 1
    /\ Len(headings) = 1
    /\ headings[1].page = 0
    /\ current_heading # <<>>
    /\ current_heading[1].level = headings[1].level
    /\ current_heading[1].y_pos = 100

\* The sizes of the title: its font size and the sizes of its lines.
TitleSizes ==
    {title_font_size} \cup {title_spans[i].font_size : i \in DOMAIN title_spans}

\* The sizes of the table other than the title's, largest first.
RemainingSizes == SortedDesc(DOMAIN font_size_stats \ TitleSizes)

\* The level of a size by its rank among the sizes, largest first.
RankAmong(sizes, font_size) ==
    IF font_size >= sizes[1] - Pt(1) THEN "H1"
    ELSE IF Len(sizes) >= 2 /\ font_size >= sizes[2] - Pt(1) THEN "H2"
    ELSE "H3"

\* C24: with a table, a text that is not title text and does not start with
\* "Chapter" is levelled by the rank of its size among the sizes of the
\* table that are not sizes of the title: every size of the title that
\* occurs in the table is left out of the ranking.
RankWithoutTitleSizes ==
    \A i \in DOMAIN probe :
        (/\ probe[i].fn = "_determine_heading_level"
         /\ ~IsTitleText(probe[i].text, title)
         /\ ~StartsWithChapter(probe[i].text[1])
         /\ RemainingSizes # <<>>)
            => probe[i].ret = RankAmong(RemainingSizes, probe[i].font_size)

\* The characters of a word with every run of digits written as one "d".
RECURSIVE Shape(_)
Shape(cs) ==
    IF cs = <<>> THEN <<>>
    ELSE IF Len(cs) >= 2 /\ cs[1] = "d" /\ cs[2] = "d" THEN Shape(Tail(cs))
    ELSE <<cs[1]>> \o Shape(Tail(cs))

\* The text starts with a word of the given shape, followed by more text.
StartsWithShape(t, shape) == Len(t) >= 2 /\ Shape(Chars(t[1])) = shape

\* The level of the fallback rules for a text and a size.
FallbackReference(t, font_size) ==
    CASE StartsWithShape(t, <<"d", ".">>) /\ font_size >= Pt(14) -> "H1"
      [] StartsWithShape(t, <<"d", ".", "d">>) -> "H2"
      [] StartsWithShape(t, <<"d", ".", "d", ".", "d">>) -> "H3"
      [] OTHER -> IF font_size >= Pt(14) THEN "H1"
                  ELSE IF font_size >= Pt(12) THEN "H2"
                  ELSE "H3"

Rounded(size) == ((size + Pt(1) \div 2) \div Pt(1)) * Pt(1)

\* The spans of the first three pages with more than 3 characters, each
\* named by its page, block, line and place in the line.
CountedSpans ==
    {x \in UNION {UNION {UNION {
            {<<p, b, l, k>> : k \in DOMAIN doc.pages[p].blocks[b][l]} :
                l \in DOMAIN doc.pages[p].blocks[b]} :
                b \in DOMAIN doc.pages[p].blocks} :
                p \in 1..Min(3, Len(doc.pages))} :
        TextLen(doc.pages[x[1]].blocks[x[2]][x[3]][x[4]].text) > 3}

SizeOfSpan(x) == doc.pages[x[1]].blocks[x[2]][x[3]][x[4]].size

\* C26: after _analyze_font_statistics the table has one key for each
\* rounded size of a counted span, and the count of a key is the number of
\* counted spans whose size rounds to it.
StatsOfRoundedSizes ==
    pc \in {"title", "scan"} =>
        /\ DOMAIN font_size_stats = {Rounded(SizeOfSpan(x)) : x \in CountedSpans}
        /\ \A fs \in DOMAIN font_size_stats :
              font_size_stats[fs] =
                  Cardinality({x \in CountedSpans : Rounded(SizeOfSpan(x)) = fs})

\* C27: within a run of extract_structure the table is written only by the
\* step of _analyze_font_statistics, which comes before title detection, and
\* the title and its font size only by the step of title detection, which
\* comes before the scan; the scan and the cleanup change none of them.
WrittenOnce ==
    [][/\ font_size_stats' # font_size_stats =>
              pc = "stats" /\ pc' = "title"
       /\ <<title, title_font_size>>' # <<title, title_font_size>> =>
              pc = "title" /\ pc' = "scan"
       /\ pc = "scan" =>
              <<font_size_stats, title, title_font_size>>' =
                  <<font_size_stats, title, title_font_size>>]_vars

\* A second file has been cleaned and written with an outline, after its
\* table and title replaced those of the first file.
WrittenOnceWitness ==
    /\ pc = "main"
    /\ idx = 2
    /\ Len(outputs) = 2
    /\ outputs[1].title # outputs[2].title
    /\ outputs[2].outline # <<>>
    /\ title = outputs[2].title
    /\ font_size_stats # <<>>

\* The rejections of _is_heading other than the title check.
RejectedByForm(t, font_size) ==
    \/ TextLen(t) < 3
    \/ TextLen(t) > 200
    \/ OnlyNumbersAndPunctuation(t)
    \/ font_size < Pt(11)

\* No title candidate was found: the title is the sentinel.
TitleIsSentinel ==
    /\ title = <<"Unknown", "Document">>
    /\ title_font_size = Pt(12)
    /\ title_spans = <<>>

\* C28: with the sentinel title the title check suppresses nothing:
\* _is_heading accepts every text that passes the other rules, the texts
\* "Unknown Document" and "Document Unknown" included.
SentinelSuppressesNothing ==
    \A i \in DOMAIN probe :
        (probe[i].fn = "_is_heading" /\ TitleIsSentinel) =>
            probe[i].ret =
                (/\ ~RejectedByForm(probe[i].text, probe[i].font_size)
                 /\ \/ MatchesHeadingPattern(probe[i].text)
                    \/ LooksLikeHeading(probe[i].text, probe[i].font_size))

\* The sizes a rank is taken among: the sizes of the table other than the
\* title's font size, or all of them when the title's is the only one.
RankedSizes ==
    IF DOMAIN font_size_stats = {title_font_size}
    THEN SortedDesc(DOMAIN font_size_stats)
    ELSE SortedDesc(DOMAIN font_size_stats \ {title_font_size})

\* C29: whenever the table has a font size, _determine_heading_level levels
\* a text that is not the title's and does not start with "Chapter" by the
\* rank of its font size alone, also when the only size of the table is the
\* title's font size.
RankWheneverTable ==
    \A i \in DOMAIN probe :
        (/\ probe[i].fn = "_determine_heading_level"
         /\ font_size_stats # <<>>
         /\ ~IsTitleText(probe[i].text, title)
         /\ ~StartsWithChapter(probe[i].text[1])) =>
            probe[i].ret = RankAmong(RankedSizes, probe[i].font_size)

\* The texts of the lines among the first n lines of page p (counted from 1)
\* that pass the title check and _is_heading, in scan order.
LevelledTextsOfPage(p, n) ==
    LET lines == PageLines(doc.pages[p])
        hls == [k \in 1..n |-> HeadingLine(lines[k], doc.pages[p].height)]
        lev(hl) == IsLevelled(hl, title)
        kept == SelectSeq(hls, lev)
    IN  [k \in DOMAIN kept |-> kept[k].text]

\* The texts of the levelled lines the scan has passed.
ScannedTexts ==
    Flatten([p \in 1..page_num |->
                LevelledTextsOfPage(p, Len(PageLines(doc.pages[p])))])
        \o (IF page_num < Len(doc.pages)
            THEN LevelledTextsOfPage(page_num + 1, line_num)
            ELSE <<>>)

\* The texts of the entries made so far: the list and the accumulator.
EntryTexts ==
    [i \in DOMAIN headings |-> headings[i].text]
        \o (IF current_heading = <<>> THEN <<>>
            ELSE <<current_heading[1].text>>)

\* The numbers of words before each text of ts and after the last.
Boundaries(ts) ==
    {SumSeq([i \in 1..k |-> Len(ts[i])]) : k \in 0..Len(ts)}

\* C30: before deduplication the entries, in order, are made of the
\* levelled lines, in scan order, each line whole in exactly one entry; the
\* pages of the entries do not decrease; and the accumulator is empty when
\* the scan has passed the last page.
ScanConserves ==
    pc = "scan" =>
        /\ JoinTexts(EntryTexts) = JoinTexts(ScannedTexts)
        /\ Boundaries(EntryTexts) \subseteq Boundaries(ScannedTexts)
        /\ \A i, j \in DOMAIN headings :
              i < j => headings[i].page <= headings[j].page
        /\ current_heading # <<>> =>
              /\ current_heading[1].page = page_num
              /\ \A i \in DOMAIN headings : headings[i].page <= page_num
        /\ page_num = Len(doc.pages) => current_heading = <<>>

\* The scan has ended with more levelled lines than entries and more than
\* one entry.
ScanConservesWitness ==
    /\ pc = "scan"
    /\ page_num = Len(doc.pages)
    /\ current_heading = <<>>
    /\ Len(headings) >= 2
    /\ Len(ScannedTexts) > Len(headings)

===========================================================================
